---- MODULE Spec2Model ----
(***************************************************************************)
(* CameraStream of camera_service.py as a state machine.                   *)
(*                                                                         *)
(* Three kinds of thread run its code: "main" (the thread that constructs  *)
(* the stream and later calls close()), "task" (the daemon thread running  *)
(* _reader_loop) and the get_frame() callers of Readers.                   *)
(*                                                                         *)
(* Time is counted in ticks of 0.1 s.  time.time() is only ever compared   *)
(* with _next_reconnect_at, so the model keeps the difference              *)
(* reconnect_in = max(_next_reconnect_at - time.time(), 0); a sleep or a   *)
(* join timeout is a count of ticks still to elapse.  Any step may be      *)
(* delayed for any number of ticks (device calls and scheduling take       *)
(* unbounded time); a sleep lasts at least its length.                     *)
(***************************************************************************)
EXTENDS Integers, FiniteSets, Sequences, TLC

\* ---------------------------------------------------------------- bounds
NumCandidates == 2      \* length of _opencv_candidate_devices() (>= 2 in the code)
FrameIds == 2           \* distinct contents told apart among successive device frames
NumReaders == 1         \* concurrent get_frame() callers (at most 3)

\* ------------------------------------------------------ program constants
MinReconnectTicks == 1  \* max(reconnect_interval, 0.1): the floor of 0.1 s
BackoffTicks == 1       \* time.sleep(0.1) after a grab that returned no frame
JoinTimeoutTicks == 5   \* self._thread.join(timeout=0.5)
Fps == 25               \* fps: int = 25

Threads == {"main", "task"}
ReaderNames == <<"reader1", "reader2", "reader3">>
Readers == {ReaderNames[i] : i \in 1..NumReaders}
Prefs == {"auto", "opencv", "picamera2"}
ReconnectIntervals == {0, 2}   \* reconnect_interval values tried, in ticks

None == "None"
NoLock == "free"

VARIABLES
    cfg,           \* constructor arguments and environment of the stream (its devices)
    pc,            \* position of main and task in the code
    running,       \* self._running
    latest_frame,  \* self._latest_frame
    source,        \* self._source
    error,         \* self._error
    opencv_cap,    \* self._opencv_cap
    picamera,      \* self._picamera
    reconnect_in,  \* self._next_reconnect_at, as ticks still to elapse
    cand,          \* index of the candidate being probed in _open_source's loop
    frame,         \* the local `frame` of _reader_loop
    devSeq,        \* content id the device delivers next
    lock,          \* owner of self._lock
    rpc,           \* position of each get_frame() caller
    got,           \* the value each get_frame() caller is about to return
    wake,          \* ticks left of the task's current time.sleep
    join_left,     \* ticks left of close()'s join timeout
    devCallers,    \* history: threads that have made a call on a device handle
    sinceAttempt,  \* history: ticks since the last open attempt began (saturating)
    lastAttempt,   \* history: outcome of the last finished open attempt
    uptime,        \* history: ticks since construction began (saturating)
    pubsAfterStop, \* history: frames published since the stop flag was set
    stage,         \* cube and vision functions: which step of a call sequence is reached
    arg,           \* cube and vision functions: the argument being prepared or passed
    ret            \* cube and vision functions: what the call returned

stream == <<cfg, pc, running, latest_frame, source, error, opencv_cap, picamera,
            reconnect_in, cand, frame, devSeq, lock, rpc, got, wake, join_left,
            devCallers, sinceAttempt, lastAttempt, uptime, pubsAfterStop>>
calc == <<stage, arg, ret>>
vars == <<stream, calc>>

shared == <<running, latest_frame, source, error, opencv_cap, picamera, reconnect_in>>
readerVars == <<lock, rpc, got>>
timers == <<wake, join_left>>
history == <<devCallers, sinceAttempt, lastAttempt, uptime, pubsAfterStop>>

Max(a, b) == IF a >= b THEN a ELSE b
Min(a, b) == IF a <= b THEN a ELSE b

\* ------------------------------------------------------------ __init__
CooldownWithoutFloor == cfg.reconnect_interval

\* self._reconnect_interval = max(reconnect_interval, 0.1)
Cooldown == Max(cfg.reconnect_interval, MinReconnectTicks)

\* frame_delay = 1.0 / max(self.fps, 1), in whole ticks
FrameDelayTicks == 10 \div Max(Fps, 1)

\* self._error values: the fixed part of the text, and the candidates whose
\* failure the text lists: device candidates are 1..NumCandidates, the
\* Picamera2 camera is 0.  ('; '.join(open_errors)[:220]: an entry has at most
\* about 30 characters, so up to 7 device candidates are listed whole.)
Err(kind, listed) == [kind |-> kind, listed |-> listed]
NoError == Err("", {})
PiCandidate == {0}

\* A frame: None, or an image with its content and the object that owns the buffer
NoFrame == [kind |-> "none", id |-> 0, own |-> "nobody"]
DeviceFrame(id) == [kind |-> "device", id |-> id, own |-> "stream"]

\* _build_placeholder: None without numpy or cv2, else a freshly drawn canvas
BuildPlaceholder(owner) ==
    IF ~cfg.np \/ ~cfg.cv2 THEN NoFrame
    ELSE [kind |-> "placeholder", id |-> 0, own |-> owner]

StreamInit ==
    /\ cfg \in [cv2 : BOOLEAN, np : BOOLEAN, picamera2_class : BOOLEAN,
                backend_pref : Prefs, reconnect_interval : ReconnectIntervals,
                reachable : BOOLEAN, steady : {{}}]
    /\ pc = [t \in Threads |-> IF t = "main" THEN "ctor" ELSE "notstarted"]
    /\ running = TRUE
    /\ latest_frame = NoFrame
    /\ source = "none"
    /\ error = Err("Initializing", {})
    /\ opencv_cap = None
    /\ picamera = None
    /\ reconnect_in = 0
    /\ cand = 0
    /\ frame = NoFrame
    /\ devSeq = 0
    /\ lock = NoLock
    /\ rpc = [r \in Readers |-> "idle"]
    /\ got = [r \in Readers |-> NoFrame]
    /\ wake = 0
    /\ join_left = 0
    /\ devCallers = {}
    /\ sinceAttempt = 0
    /\ lastAttempt = "never"
    /\ uptime = 0
    /\ pubsAfterStop = 0

\* the stream model calls none of the cube and vision functions
NoCall == <<>>

Init ==
    /\ StreamInit
    /\ stage = "stream"
    /\ arg = NoCall
    /\ ret = NoCall

Goto(t, where) == pc' = [pc EXCEPT ![t] = where]

\* Where _open_source returns to: __init__ line 43 on main, _grab_frame's
\* `return None` on the task
OpenReturn(t) == IF t = "main" THEN "start_thread" ELSE "no_frame"

DevCall(t) == devCallers' = devCallers \cup {t}

\* __init__ line 42
Construct ==
    /\ pc["main"] = "ctor"
    /\ Goto("main", "os_check")
    /\ UNCHANGED <<calc, cfg, shared, cand, frame, devSeq, readerVars, timers, history>>

\* ------------------------------------------------------- _close_source
\* _close_source runs inside _open_source (os_cs1..5) and inside close()
\* (cl_cs1..5); one step per statement
CsAfter == [os_cs1 |-> "os_cs2", os_cs2 |-> "os_cs3", os_cs3 |-> "os_cs4",
            os_cs4 |-> "os_cs5", os_cs5 |-> "os_cv",
            cl_cs1 |-> "cl_cs2", cl_cs2 |-> "cl_cs3", cl_cs3 |-> "cl_cs4",
            cl_cs4 |-> "cl_cs5", cl_cs5 |-> "closed"]

\* what release(), stop() and close() of a device handle can do
ReleaseOutcomes == {"returned", "raised"}

\* lines 85-88 and 92-99: try: ... except Exception: pass -- whether the call
\* returned or raised, execution goes on at the next statement
AfterRelease(t, outcome) == CsAfter[pc[t]]

\* lines 84-88: release() when a capture is held; its exception is swallowed
CloseReleaseCap(t) ==
    /\ pc[t] \in {"os_cs1", "cl_cs1"}
    /\ \E outcome \in ReleaseOutcomes : Goto(t, AfterRelease(t, outcome))
    /\ devCallers' = IF opencv_cap # None THEN devCallers \cup {t} ELSE devCallers
    /\ UNCHANGED <<calc, cfg, shared, cand, frame, devSeq, readerVars, timers,
                   sinceAttempt, lastAttempt, uptime, pubsAfterStop>>

\* line 89
CloseClearCap(t) ==
    /\ pc[t] \in {"os_cs2", "cl_cs2"}
    /\ opencv_cap' = None
    /\ Goto(t, CsAfter[pc[t]])
    /\ UNCHANGED <<calc, cfg, running, latest_frame, source, error, picamera, reconnect_in,
                   cand, frame, devSeq, readerVars, timers, history>>

\* lines 91-99: stop() and close() when a camera is held; exceptions swallowed
CloseStopCamera(t) ==
    /\ pc[t] \in {"os_cs3", "cl_cs3"}
    /\ \E outcome \in ReleaseOutcomes : Goto(t, AfterRelease(t, outcome))
    /\ devCallers' = IF picamera # None THEN devCallers \cup {t} ELSE devCallers
    /\ UNCHANGED <<calc, cfg, shared, cand, frame, devSeq, readerVars, timers,
                   sinceAttempt, lastAttempt, uptime, pubsAfterStop>>

\* line 100
CloseClearCamera(t) ==
    /\ pc[t] \in {"os_cs4", "cl_cs4"}
    /\ picamera' = None
    /\ Goto(t, CsAfter[pc[t]])
    /\ UNCHANGED <<calc, cfg, running, latest_frame, source, error, opencv_cap, reconnect_in,
                   cand, frame, devSeq, readerVars, timers, history>>

\* line 101
CloseClearSource(t) ==
    /\ pc[t] \in {"os_cs5", "cl_cs5"}
    /\ source' = "none"
    /\ Goto(t, CsAfter[pc[t]])
    /\ UNCHANGED <<calc, cfg, running, latest_frame, error, opencv_cap, picamera, reconnect_in,
                   cand, frame, devSeq, readerVars, timers, history>>

\* -------------------------------------------------------- _open_source
CooldownNeverActive == FALSE

\* line 105: now < self._next_reconnect_at
CooldownActive == reconnect_in > 0

\* lines 104-107: the cooldown check; past it the attempt begins
OpenCheck(t) ==
    /\ pc[t] = "os_check"
    /\ IF CooldownActive
       THEN /\ Goto(t, OpenReturn(t))
            /\ UNCHANGED <<reconnect_in, sinceAttempt, lastAttempt>>
       ELSE /\ reconnect_in' = Cooldown
            /\ sinceAttempt' = 0
            /\ UNCHANGED lastAttempt
            /\ Goto(t, "os_cs1")
    /\ UNCHANGED <<calc, cfg, running, latest_frame, source, error, opencv_cap, picamera,
                   cand, frame, devSeq, readerVars, timers, devCallers, uptime,
                   pubsAfterStop>>

\* line 112 and line 131: which backends the preference and the libraries allow
TriesOpenCV == cfg.backend_pref \in {"auto", "opencv"} /\ cfg.cv2
TriesPicamera2 ==
    cfg.backend_pref \in {"auto", "picamera2"} /\ cfg.picamera2_class /\ cfg.cv2

\* the candidates an open attempt probes
ProbedCandidates ==
    (IF TriesOpenCV THEN 1..NumCandidates ELSE {})
        \cup (IF TriesPicamera2 THEN PiCandidate ELSE {})

\* what opening candidate c can answer: a stream without a reachable device
\* never gets a handle; once a candidate is steady (cfg.steady holds it) that
\* one opens and the others do not
OpenOutcomes(c) ==
    IF cfg.steady # {} THEN (IF c \in cfg.steady THEN {"opened"} ELSE {"failed"})
    ELSE IF cfg.reachable THEN {"opened", "failed"}
    ELSE {"failed"}

\* line 112
OpenChooseOpenCV(t) ==
    /\ pc[t] = "os_cv"
    /\ IF TriesOpenCV
       THEN cand' = 1 /\ Goto(t, "os_cv_probe")
       ELSE cand' = 0 /\ Goto(t, "os_pi")
    /\ UNCHANGED <<calc, cfg, shared, frame, devSeq, readerVars, timers, history>>

\* lines 114-128: _open_opencv_capture on the next candidate; None and an
\* exception both add an entry to open_errors and move on
OpenProbeDevice(t) ==
    /\ pc[t] = "os_cv_probe"
    /\ cand <= NumCandidates
    /\ DevCall(t)
    /\ \E outcome \in OpenOutcomes(cand) :
          IF outcome = "opened"
          THEN cand' = cand /\ Goto(t, "os_cv_set_cap")
          ELSE cand' = cand + 1 /\ UNCHANGED pc
    /\ UNCHANGED <<calc, cfg, shared, frame, devSeq, readerVars, timers,
                   sinceAttempt, lastAttempt, uptime, pubsAfterStop>>

\* line 129: every candidate failed
OpenDevicesExhausted(t) ==
    /\ pc[t] = "os_cv_probe"
    /\ cand > NumCandidates
    /\ error' = Err("OpenCV camera unavailable", 1..(cand - 1))
    /\ cand' = 0
    /\ Goto(t, "os_pi")
    /\ UNCHANGED <<calc, cfg, running, latest_frame, source, opencv_cap, picamera, reconnect_in,
                   frame, devSeq, readerVars, timers, history>>

\* lines 121-122
OpenSetCap(t) ==
    /\ pc[t] = "os_cv_set_cap"
    /\ opencv_cap' = "cap"
    /\ cand' = 0
    /\ Goto(t, "os_cv_set_src")
    /\ UNCHANGED <<calc, cfg, running, latest_frame, source, error, picamera, reconnect_in,
                   frame, devSeq, readerVars, timers, history>>

\* line 123
OpenSetSourceOpenCV(t) ==
    /\ pc[t] = "os_cv_set_src"
    /\ source' = "opencv"
    /\ Goto(t, "os_set_ok")
    /\ UNCHANGED <<calc, cfg, running, latest_frame, error, opencv_cap, picamera, reconnect_in,
                   cand, frame, devSeq, readerVars, timers, history>>

\* lines 124-126 and 141-143: the attempt succeeded
OpenSucceeded(t) ==
    /\ pc[t] = "os_set_ok"
    /\ error' = NoError
    /\ reconnect_in' = 0
    /\ lastAttempt' = "ok"
    /\ Goto(t, OpenReturn(t))
    /\ UNCHANGED <<calc, cfg, running, latest_frame, source, opencv_cap, picamera,
                   cand, frame, devSeq, readerVars, timers, devCallers, sinceAttempt,
                   uptime, pubsAfterStop>>

\* line 131
OpenChoosePicamera2(t) ==
    /\ pc[t] = "os_pi"
    /\ Goto(t, IF TriesPicamera2 THEN "os_pi_probe" ELSE "os_fin")
    /\ UNCHANGED <<calc, cfg, shared, cand, frame, devSeq, readerVars, timers, history>>

\* lines 132-138 and 144-145: create, configure and start the camera
OpenProbePicamera2(t) ==
    /\ pc[t] = "os_pi_probe"
    /\ DevCall(t)
    /\ \E outcome \in OpenOutcomes(0) :
          IF outcome = "opened"
          THEN Goto(t, "os_pi_set_cam") /\ UNCHANGED error
          ELSE /\ error' = Err("Picamera2 unavailable", PiCandidate)
               /\ Goto(t, "os_fin")
    /\ UNCHANGED <<calc, cfg, running, latest_frame, source, opencv_cap, picamera, reconnect_in,
                   cand, frame, devSeq, readerVars, timers,
                   sinceAttempt, lastAttempt, uptime, pubsAfterStop>>

\* line 139
OpenSetCamera(t) ==
    /\ pc[t] = "os_pi_set_cam"
    /\ picamera' = "camera"
    /\ Goto(t, "os_pi_set_src")
    /\ UNCHANGED <<calc, cfg, running, latest_frame, source, error, opencv_cap, reconnect_in,
                   cand, frame, devSeq, readerVars, timers, history>>

\* line 140
OpenSetSourcePicamera2(t) ==
    /\ pc[t] = "os_pi_set_src"
    /\ source' = "picamera2"
    /\ Goto(t, "os_set_ok")
    /\ UNCHANGED <<calc, cfg, running, latest_frame, error, opencv_cap, picamera, reconnect_in,
                   cand, frame, devSeq, readerVars, timers, history>>

\* lines 147-150: no backend was opened
OpenFailed(t) ==
    /\ pc[t] = "os_fin"
    /\ error' = IF ~cfg.cv2 \/ ~cfg.np
                THEN Err("opencv-python and numpy are required", {})
                ELSE IF error.kind = ""
                     THEN Err("No camera backend available", {})
                     ELSE error
    /\ lastAttempt' = "fail"
    /\ Goto(t, OpenReturn(t))
    /\ UNCHANGED <<calc, cfg, running, latest_frame, source, opencv_cap, picamera, reconnect_in,
                   cand, frame, devSeq, readerVars, timers, devCallers, sinceAttempt,
                   uptime, pubsAfterStop>>

OpenSource(t) ==
    \/ OpenCheck(t)
    \/ CloseReleaseCap(t) \/ CloseClearCap(t) \/ CloseStopCamera(t)
    \/ CloseClearCamera(t) \/ CloseClearSource(t)
    \/ OpenChooseOpenCV(t) \/ OpenProbeDevice(t) \/ OpenDevicesExhausted(t)
    \/ OpenSetCap(t) \/ OpenSetSourceOpenCV(t) \/ OpenSucceeded(t)
    \/ OpenChoosePicamera2(t) \/ OpenProbePicamera2(t) \/ OpenSetCamera(t)
    \/ OpenSetSourcePicamera2(t) \/ OpenFailed(t)

\* ------------------------------------------------- __init__, continued
\* lines 43-44: the acquisition thread starts, the constructor returns
StartThread ==
    /\ pc["main"] = "start_thread"
    /\ pc' = [pc EXCEPT !["main"] = "live", !["task"] = "loop"]
    /\ UNCHANGED <<calc, cfg, shared, cand, frame, devSeq, readerVars, timers, history>>

\* ------------------------------------------- _reader_loop, _grab_frame
LoopForever == TRUE

\* line 281: while self._running
LoopContinues == running

LoopTest ==
    /\ pc["task"] = "loop"
    /\ Goto("task", IF LoopContinues THEN "grab" ELSE "done")
    /\ UNCHANGED <<calc, cfg, shared, cand, frame, devSeq, readerVars, timers, history>>

\* lines 258, 267, 275: which branch of _grab_frame is taken
GrabFrame ==
    /\ pc["task"] = "grab"
    /\ Goto("task", IF source = "picamera2" /\ picamera # None /\ cfg.cv2
                    THEN "read_pi"
                    ELSE IF source = "opencv" /\ opencv_cap # None
                         THEN "read_cv"
                         ELSE "os_check")
    /\ UNCHANGED <<calc, cfg, shared, cand, frame, devSeq, readerVars, timers, history>>

NextSeq == (devSeq + 1) % FrameIds

\* what a read of a held handle can answer; the handle of a steady device
\* delivers a frame
ReadOutcomes(failures) == IF cfg.steady # {} THEN {"frame"} ELSE {"frame"} \cup failures

\* lines 259-265: capture_array and cvtColor inside try; any exception (also
\* the AttributeError when close() has cleared self._picamera) is caught
ReadPicamera2 ==
    /\ pc["task"] = "read_pi"
    /\ devCallers' = IF picamera # None THEN devCallers \cup {"task"} ELSE devCallers
    /\ \E outcome \in IF picamera # None THEN ReadOutcomes({"raised"}) ELSE {"raised"} :
          IF outcome = "frame"
          THEN /\ frame' = DeviceFrame(devSeq)
               /\ devSeq' = NextSeq
               /\ Goto("task", "pub_acquire")
               /\ UNCHANGED error
          ELSE /\ error' = Err("Picamera2 read failed", {})
               /\ Goto("task", "os_check")
               /\ UNCHANGED <<frame, devSeq>>
    /\ UNCHANGED <<calc, cfg, running, latest_frame, source, opencv_cap, picamera, reconnect_in,
                   cand, readerVars, timers, sinceAttempt, lastAttempt, uptime,
                   pubsAfterStop>>

\* lines 268-273: self._opencv_cap.read() outside any try: a failed read goes
\* to _open_source, an exception of the call (or the AttributeError when
\* close() has cleared self._opencv_cap) leaves _reader_loop
ReadOpenCV ==
    /\ pc["task"] = "read_cv"
    /\ devCallers' = IF opencv_cap # None THEN devCallers \cup {"task"} ELSE devCallers
    /\ \E outcome \in IF opencv_cap # None THEN ReadOutcomes({"failed", "raised"})
                                          ELSE {"raised"} :
          CASE outcome = "frame" ->
                 /\ frame' = DeviceFrame(devSeq)
                 /\ devSeq' = NextSeq
                 /\ Goto("task", "pub_acquire")
                 /\ UNCHANGED error
            [] outcome = "failed" ->
                 /\ error' = Err("OpenCV read failed", {})
                 /\ Goto("task", "os_check")
                 /\ UNCHANGED <<frame, devSeq>>
            [] outcome = "raised" ->
                 /\ Goto("task", "dead")
                 /\ UNCHANGED <<error, frame, devSeq>>
    /\ UNCHANGED <<calc, cfg, running, latest_frame, source, opencv_cap, picamera, reconnect_in,
                   cand, readerVars, timers, sinceAttempt, lastAttempt, uptime,
                   pubsAfterStop>>

\* lines 283-285: no frame: build the placeholder, then time.sleep(0.1)
NoFrameBackoff ==
    /\ pc["task"] = "no_frame"
    /\ frame' = BuildPlaceholder("stream")
    /\ wake' = BackoffTicks
    /\ Goto("task", "backoff")
    /\ UNCHANGED <<calc, cfg, shared, cand, devSeq, readerVars, join_left, history>>

BackoffOver ==
    /\ pc["task"] = "backoff"
    /\ wake = 0
    /\ Goto("task", "pub_acquire")
    /\ UNCHANGED <<calc, cfg, shared, cand, frame, devSeq, readerVars, timers, history>>

LockIgnored == TRUE

\* threading.Lock: acquire succeeds only while nobody holds it
LockFree == lock = NoLock

\* line 287: with self._lock
PublishAcquire ==
    /\ pc["task"] = "pub_acquire"
    /\ LockFree
    /\ lock' = "task"
    /\ Goto("task", "pub_write")
    /\ UNCHANGED <<calc, cfg, shared, cand, frame, devSeq, rpc, got, timers, history>>

LockKeptOverSleep == lock

\* line 288 ends the with block: the lock is released before line 290 sleeps
LockAfterPublish == NoLock

\* lines 288-290: publish, leave the with block, start time.sleep(frame_delay)
Publish ==
    /\ pc["task"] = "pub_write"
    /\ latest_frame' = frame
    /\ frame' = NoFrame
    /\ lock' = LockAfterPublish
    /\ pubsAfterStop' = IF running THEN pubsAfterStop ELSE Min(pubsAfterStop + 1, 2)
    /\ wake' = FrameDelayTicks
    /\ Goto("task", "frame_sleep")
    /\ UNCHANGED <<calc, cfg, running, source, error, opencv_cap, picamera, reconnect_in,
                   cand, devSeq, rpc, got, join_left, devCallers, sinceAttempt,
                   lastAttempt, uptime>>

FrameSleepOver ==
    /\ pc["task"] = "frame_sleep"
    /\ wake = 0
    /\ Goto("task", "loop")
    /\ UNCHANGED <<calc, cfg, shared, cand, frame, devSeq, readerVars, timers, history>>

TaskEnded == pc["task"] \in {"done", "dead"}

\* ---------------------------------------------------------------- close
\* lines 301-303: clear the flag; join with the timeout when the thread lives
CloseBegin ==
    /\ pc["main"] = "live"
    /\ running' = FALSE
    /\ join_left' = IF TaskEnded THEN 0 ELSE JoinTimeoutTicks
    /\ Goto("main", "cl_join")
    /\ UNCHANGED <<calc, cfg, latest_frame, source, error, opencv_cap, picamera, reconnect_in,
                   cand, frame, devSeq, readerVars, wake, history>>

\* line 303: join returns when the thread has ended or the timeout has passed
CloseJoined ==
    /\ pc["main"] = "cl_join"
    /\ TaskEnded \/ join_left = 0
    /\ join_left' = 0
    /\ Goto("main", "cl_cs1")
    /\ UNCHANGED <<calc, cfg, shared, cand, frame, devSeq, readerVars, wake, history>>

\* ------------------------------------------------------------ get_frame
Constructed == pc["main"] \notin {"ctor", "start_thread"} /\ pc["task"] # "notstarted"

\* line 297: self._latest_frame.copy()
Copy(f, owner) == [f EXCEPT !.own = owner]

GetFrameResultUnchecked(r) == latest_frame

\* lines 294-298
GetFrameResult(r) ==
    IF latest_frame = NoFrame THEN BuildPlaceholder(r)
    ELSE IF cfg.np THEN Copy(latest_frame, r)
    ELSE latest_frame

NotReleased == lock

\* leaving `with self._lock`
Released == NoLock

\* line 293
GetFrameAcquire(r) ==
    /\ Constructed
    /\ rpc[r] = "idle"
    /\ LockFree
    /\ lock' = r
    /\ rpc' = [rpc EXCEPT ![r] = "locked"]
    /\ UNCHANGED <<calc, cfg, pc, shared, cand, frame, devSeq, got, timers, history>>

\* lines 294-298: the value to return is computed under the lock
GetFrameRead(r) ==
    /\ rpc[r] = "locked"
    /\ got' = [got EXCEPT ![r] = GetFrameResult(r)]
    /\ rpc' = [rpc EXCEPT ![r] = "copied"]
    /\ UNCHANGED <<calc, cfg, pc, shared, cand, frame, devSeq, lock, timers, history>>

\* the with block is left and the value returned
GetFrameReturn(r) ==
    /\ rpc[r] = "copied"
    /\ lock' = Released
    /\ rpc' = [rpc EXCEPT ![r] = "idle"]
    /\ got' = [got EXCEPT ![r] = NoFrame]
    /\ UNCHANGED <<calc, cfg, pc, shared, cand, frame, devSeq, timers, history>>

\* ----------------------------------------------------------------- time
Frozen(n) == n

\* a timer or deadline after 0.1 s more
Dec(n) == Max(n - 1, 0)

\* 0.1 s passes
Tick ==
    /\ reconnect_in' = Dec(reconnect_in)
    /\ wake' = Dec(wake)
    /\ join_left' = Dec(join_left)
    /\ sinceAttempt' = Min(sinceAttempt + 1, Cooldown)
    /\ uptime' = Min(uptime + 1, Cooldown)
    /\ UNCHANGED <<calc, cfg, pc, running, latest_frame, source, error, opencv_cap, picamera,
                   cand, frame, devSeq, readerVars, devCallers, lastAttempt,
                   pubsAfterStop>>

Next ==
    \/ Construct
    \/ StartThread
    \/ \E t \in Threads : OpenSource(t)
    \/ LoopTest \/ GrabFrame \/ ReadPicamera2 \/ ReadOpenCV
    \/ NoFrameBackoff \/ BackoffOver \/ PublishAcquire \/ Publish \/ FrameSleepOver
    \/ CloseBegin \/ CloseJoined
    \/ \E r \in Readers : GetFrameAcquire(r) \/ GetFrameRead(r) \/ GetFrameReturn(r)
    \/ Tick

Spec == Init /\ [][Next]_vars

TypeOK ==
    /\ running \in BOOLEAN
    /\ source \in {"none", "opencv", "picamera2"}
    /\ opencv_cap \in {None, "cap"}
    /\ picamera \in {None, "camera"}
    /\ reconnect_in \in 0..Cooldown
    /\ lock \in {NoLock, "task"} \cup Readers

\* ------------------------------------- a stream that is never closed
\* Backoff: the last open attempt failed, no source is active and the task is
\* between attempts (lines 275-276 and 281-290)
BackoffSteps == {"loop", "grab", "os_check", "no_frame", "backoff", "pub_acquire",
                 "pub_write", "frame_sleep"}
InBackoff ==
    /\ Constructed
    /\ lastAttempt = "fail"
    /\ source = "none" /\ opencv_cap = None /\ picamera = None
    /\ pc["task"] \in BackoffSteps

\* the environment: while the stream is in backoff one of the candidates it
\* probes becomes steady; from then on it can be opened and read
DeviceRecovers(c) ==
    /\ InBackoff
    /\ cfg.steady = {}
    /\ c \in ProbedCandidates
    /\ cfg' = [cfg EXCEPT !.steady = {c}]
    /\ UNCHANGED <<calc, pc, shared, cand, frame, devSeq, readerVars, timers, history>>

\* the steps of the acquisition thread
TaskStep ==
    \/ OpenSource("task")
    \/ LoopTest \/ GrabFrame \/ ReadPicamera2 \/ ReadOpenCV
    \/ NoFrameBackoff \/ BackoffOver \/ Publish \/ FrameSleepOver

\* a get_frame() caller inside the with block
ReaderStep(r) == GetFrameRead(r) \/ GetFrameReturn(r)

\* the imaging libraries are installed: without cv2 no candidate is probed
LiveInit ==
    /\ Init
    /\ cfg.cv2 /\ cfg.np

LiveNext ==
    \/ Construct
    \/ StartThread
    \/ OpenSource("main")
    \/ TaskStep
    \/ PublishAcquire
    \/ \E r \in Readers : GetFrameAcquire(r) \/ ReaderStep(r)
    \/ \E c \in 0..NumCandidates : DeviceRecovers(c)
    \/ Tick

\* threads are scheduled, time passes, and the task gets the frame lock when
\* it is free again and again
SpecLive ==
    /\ LiveInit
    /\ [][LiveNext]_vars
    /\ WF_vars(Tick)
    /\ WF_vars(TaskStep)
    /\ SF_vars(PublishAcquire)
    /\ \A r \in Readers : WF_vars(ReaderStep(r))


\* =================================================================
\* cube_service.py: face assembly and solver-input resolution
\* =================================================================
MaxEdits == 2           \* stickers changed in a layout before it is resolved

FaceSize == 9           \* stickers of a face
Center == 4             \* index of the center sticker

\* config.py: FACE_ORDER and the keys of COLOR_PROTOTYPES_HSV
FACE_ORDER == <<"U", "R", "F", "D", "L", "B">>
Faces == {FACE_ORDER[k] : k \in 1..6}
KnownColors == {"W", "Y", "R", "O", "B", "G"}
Unknown == "?"

\* the first face of a set in FACE_ORDER
FirstFace(S) ==
    FACE_ORDER[CHOOSE k \in 1..6 :
                  FACE_ORDER[k] \in S /\ \A j \in 1..(k - 1) : FACE_ORDER[j] \notin S]

\* what a function answers: a value, or a raised ValueError with the fixed
\* part of its message and the face or color the message names
Ok(v) == [ok |-> TRUE, value |-> v, error |-> "", about |-> ""]
Fail(e, a) == [ok |-> FALSE, value |-> <<>>, error |-> e, about |-> a]

\* len(faces.get(face, []))
FaceLen(faces, f) == IF f \in DOMAIN faces THEN Cardinality(DOMAIN faces[f]) ELSE 0

FixedColorToFace(centers, c) ==
    IF c \notin KnownColors THEN None
    ELSE [W |-> "U", Y |-> "D", R |-> "R", O |-> "L", B |-> "B", G |-> "F"][c]

\* color_to_face = {color: face for face, color in centers.items()}, then
\* color_to_face.get(color): a later face of FACE_ORDER replaces an earlier one
ColorToFace(centers, c) ==
    LET owners == {k \in 1..6 : centers[FACE_ORDER[k]] = c}
    IN  IF owners = {} THEN None
        ELSE FACE_ORDER[CHOOSE k \in owners : \A j \in owners : j <= k]

CentersUniqueUnchecked(centers) == TRUE

\* len(set(centers.values())) != 6, negated
CentersUnique(centers) == Cardinality({centers[f] : f \in Faces}) = 6

AlwaysFirstFace(k) == FACE_ORDER[1]

\* slot k of the 54, in FACE_ORDER and index order
SlotFace(k) == FACE_ORDER[((k - 1) \div FaceSize) + 1]
SlotIndex(k) == (k - 1) % FaceSize

CubeToKociembaInput(faces) ==
    LET short == {f \in Faces : FaceLen(faces, f) # FaceSize}
    IN  IF short # {} THEN Fail("is missing or incomplete", FirstFace(short))
        ELSE
        LET centers == [f \in Faces |-> faces[f][Center]]
            unknown == {f \in Faces : centers[f] \notin KnownColors}
        IN  IF unknown # {} THEN Fail("Center sticker is unknown", FirstFace(unknown))
            ELSE IF ~CentersUnique(centers)
            THEN Fail("Center colors are not unique", "")
            ELSE
            LET color(k) == faces[SlotFace(k)][SlotIndex(k)]
                unmapped == {k \in 1..(6 * FaceSize) : ColorToFace(centers, color(k)) = None}
            IN  IF unmapped # {}
                THEN Fail("has no matching center face",
                          color(CHOOSE k \in unmapped : \A j \in unmapped : k <= j))
                ELSE Ok([k \in 1..(6 * FaceSize) |-> ColorToFace(centers, color(k))])

\* ---- layouts given to cube_to_kociemba_input
\* center colors of the layouts the edits start from
StandardCenters == [U |-> "W", R |-> "R", F |-> "G", D |-> "Y", L |-> "O", B |-> "B"]
BaseCenters == {StandardCenters,
                [U |-> "Y", R |-> "G", F |-> "R", D |-> "W", L |-> "B", B |-> "O"]}
Solved(centers) == [f \in Faces |-> [i \in 0..(FaceSize - 1) |-> centers[f]]]
EditSlots == {0, Center}
EditColors == KnownColors \cup {Unknown}

\* the stream is not involved in the cube and vision functions
StreamIdle ==
    /\ StreamInit
    /\ cfg = [cv2 |-> TRUE, np |-> TRUE, picamera2_class |-> FALSE,
              backend_pref |-> "auto", reconnect_interval |-> 0, reachable |-> TRUE,
              steady |-> {}]

ResolveInit ==
    /\ StreamIdle
    /\ stage = "layout"
    /\ \E c \in BaseCenters : arg = [faces |-> Solved(c), edits |-> 0]
    /\ ret = NoCall

Editable == stage = "layout" /\ arg.edits < MaxEdits

SetSticker(f, i, c) ==
    /\ Editable
    /\ f \in DOMAIN arg.faces
    /\ i \in DOMAIN arg.faces[f]
    /\ arg' = [faces |-> [arg.faces EXCEPT ![f][i] = c], edits |-> arg.edits + 1]
    /\ UNCHANGED <<stream, stage, ret>>

\* a face with fewer than 9 entries
ShortenFace(f) ==
    /\ Editable
    /\ f \in DOMAIN arg.faces
    /\ FaceLen(arg.faces, f) = FaceSize
    /\ arg' = [faces |-> [arg.faces EXCEPT ![f] = [i \in 0..(FaceSize - 2) |-> @[i]]],
               edits |-> arg.edits + 1]
    /\ UNCHANGED <<stream, stage, ret>>

\* a layout without the face
RemoveFace(f) ==
    /\ Editable
    /\ f \in DOMAIN arg.faces
    /\ arg' = [faces |-> [g \in (DOMAIN arg.faces) \ {f} |-> arg.faces[g]],
               edits |-> arg.edits + 1]
    /\ UNCHANGED <<stream, stage, ret>>

Resolve ==
    /\ stage = "layout"
    /\ ret' = CubeToKociembaInput(arg.faces)
    /\ stage' = "resolved"
    /\ UNCHANGED <<stream, arg>>

ResolveNext ==
    \/ \E f \in Faces, i \in EditSlots, c \in EditColors : SetSticker(f, i, c)
    \/ \E f \in Faces : ShortenFace(f)
    \/ \E f \in Faces : RemoveFace(f)
    \/ Resolve

SpecResolve == ResolveInit /\ [][ResolveNext]_vars


\* ---------------------------------------------------- build_face_state
MaxExtra == 1           \* detections appended to the 54 of the two cameras

\* config.py
CAMERA_IDS == <<"0", "1">>
CAMERA_FACE_MAP == [c \in {"0", "1"} |-> IF c = "0" THEN <<"U", "F", "R">>
                                          ELSE <<"D", "B", "L">>]

Unclamped(value, lower, upper) == value

\* utils.clamp
Clamp(value, lower, upper) == Max(lower, Min(value, upper))

\* line 19
BlankFaces == [f \in Faces |-> [i \in 0..(FaceSize - 1) |-> Unknown]]

\* line 25: face in faces and 0 <= index <= 8
SlotExists(faces, sticker) ==
    sticker.face \in DOMAIN faces /\ 0 <= sticker.index /\ sticker.index <= 8

\* lines 22-26 for the detections k.. of the list; the assignment of line 26
\* changes an entry of a face and never the set of faces
RECURSIVE Assemble(_, _, _)
Assemble(stickers, k, faces) ==
    IF k > Len(stickers) THEN faces
    ELSE LET written ==
                 IF SlotExists(faces, stickers[k])
                 THEN [faces EXCEPT ![stickers[k].face][stickers[k].index] = stickers[k].color]
                 ELSE faces
         IN  IF DOMAIN written = DOMAIN faces
             THEN Assemble(stickers, k + 1, written)
             ELSE written

AlwaysComplete(faces) == TRUE

\* lines 28-31
IsComplete(faces) ==
    \A f \in DOMAIN faces :
        /\ Cardinality(DOMAIN faces[f]) = FaceSize
        /\ \A i \in DOMAIN faces[f] : faces[f][i] \in KnownColors

SecondCameraFirst(detections) == detections[CAMERA_IDS[2]] \o detections[CAMERA_IDS[1]]

\* detections.values(): the cameras' lists in the order of CAMERA_IDS
AllDetections(detections) == detections[CAMERA_IDS[1]] \o detections[CAMERA_IDS[2]]

BuildFaceState(detections) ==
    LET faces == Assemble(AllDetections(detections), 1, BlankFaces)
    IN  Ok([faces |-> faces, complete |-> IsComplete(faces)])

\* ------------------------------------------------ roi_service.normalize_roi
\* str(...).upper() on the face tokens used
Upper(token) ==
    IF token \in {"u", "r", "f", "d", "l", "b"}
    THEN [u |-> "U", r |-> "R", f |-> "F", d |-> "D", l |-> "L", b |-> "B"][token]
    ELSE token

\* an index as posted: an integer, or text that int() refuses
IntIndex(n) == [int |-> TRUE, val |-> n]
TextIndex == [int |-> FALSE, val |-> 0]

\* coordinates are in hundredths of the frame
NormalizeRoi(raw) ==
    LET up == Upper(raw.face)
        face == IF up \in Faces THEN up ELSE "U"
        given == IF raw.index.int THEN raw.index.val ELSE 0
        index == Clamp(given, 0, 8)
        x == Clamp(raw.x, 0, 98)
        y == Clamp(raw.y, 0, 98)
        w == Clamp(raw.w, 2, 60)
        h == Clamp(raw.h, 2, 60)
    IN  Ok([id |-> <<face, index>>, face |-> face, index |-> index,
            x |-> IF x + w > 100 THEN 100 - w ELSE x,
            y |-> IF y + h > 100 THEN 100 - h ELSE y,
            w |-> w, h |-> h])

\* ---- detection sets given to build_face_state
\* the 27 detections of a camera over its default regions, each sticker seen
\* in the color of its face's center
CameraDetections(c) ==
    [k \in 1..(3 * FaceSize) |->
        LET face == CAMERA_FACE_MAP[c][((k - 1) \div FaceSize) + 1]
        IN  [face |-> face, index |-> (k - 1) % FaceSize, color |-> StandardCenters[face]]]

ExtraDetections ==
    {[face |-> "D", index |-> 0, color |-> "G"],
     [face |-> "D", index |-> 0, color |-> Unknown],
     [face |-> "X", index |-> 0, color |-> "G"],
     [face |-> "D", index |-> 9, color |-> "G"],
     [face |-> "D", index |-> -1, color |-> "G"]}

PostedRegions ==
    [face : {"U", "d", "X"}, index : {IntIndex(-1), IntIndex(4), IntIndex(9), TextIndex},
     x : {95}, y : {10}, w : {8}, h : {8}]
PostedAt == {1}

AssembleInit ==
    /\ StreamIdle
    /\ stage = "detections"
    /\ arg = [detections |-> [c \in {"0", "1"} |-> CameraDetections(c)],
              extra |-> 0, posted |-> NoCall, roi |-> NoCall]
    /\ ret = NoCall

\* one more detection at the end of a camera's list
AppendDetection(c, sticker) ==
    /\ stage = "detections"
    /\ arg.extra < MaxExtra
    /\ arg' = [arg EXCEPT !.detections[c] = Append(@, sticker), !.extra = @ + 1]
    /\ UNCHANGED <<stream, stage, ret>>

\* a region is posted for place k of a camera: it is normalized, and the
\* detection of that place carries the face and index of the normalized region
\* (server.detect_for_camera, lines 163-165)
PostRegion(c, k, raw) ==
    /\ stage = "detections"
    /\ arg.posted = NoCall
    /\ arg.extra = 0
    /\ LET roi == NormalizeRoi(raw)
       IN  arg' = [arg EXCEPT !.posted = raw, !.roi = roi,
                              !.detections[c][k].face = roi.value.face,
                              !.detections[c][k].index = roi.value.index]
    /\ UNCHANGED <<stream, stage, ret>>

Build ==
    /\ stage = "detections"
    /\ ret' = [given |-> arg.detections, first |-> BuildFaceState(arg.detections)]
    /\ stage' = "built"
    /\ UNCHANGED <<stream, arg>>

RemoveAt(seq, k) == SubSeq(seq, 1, k - 1) \o SubSeq(seq, k + 1, Len(seq))

\* the same detections without one of them are assembled again
Rebuild(c, k) ==
    /\ stage = "built"
    /\ k \in DOMAIN arg.detections[c]
    /\ arg' = [arg EXCEPT !.detections[c] = RemoveAt(@, k)]
    /\ ret' = [given |-> ret.given, first |-> ret.first,
               removed |-> arg.detections[c][k],
               second |-> BuildFaceState(arg'.detections)]
    /\ stage' = "rebuilt"
    /\ UNCHANGED stream

AssembleNext ==
    \/ \E c \in {"0", "1"}, sticker \in ExtraDetections : AppendDetection(c, sticker)
    \/ \E k \in PostedAt, raw \in PostedRegions : PostRegion("1", k, raw)
    \/ Build
    \/ \E c \in {"0", "1"}, k \in 1..(3 * FaceSize + MaxExtra) : Rebuild(c, k)

SpecAssemble == AssembleInit /\ [][AssembleNext]_vars


\* =================================================================
\* server.py: classify_hsv
\* =================================================================
GridStep == 15          \* spacing of the hue, saturation and value inputs tried

\* config.py: COLOR_PROTOTYPES_HSV in the order of the dict
ColorOrder == <<"W", "Y", "R", "O", "B", "G">>
COLOR_PROTOTYPES_HSV ==
    [W |-> <<0, 15, 235>>, Y |-> <<30, 220, 220>>, R |-> <<2, 230, 210>>,
     O |-> <<17, 235, 230>>, B |-> <<108, 230, 200>>, G |-> <<65, 225, 180>>]

Abs(x) == IF x < 0 THEN -x ELSE x

\* lines 104-107: 0.55 * hue/90 + 0.25 * sat/255 + 0.20 * val/255, counted in
\* units of 1/30600 (0.55/90 = 187/30600, 0.25/255 = 30/30600, 0.20/255 = 24/30600)
Score(c, h, s, v) ==
    LET p == COLOR_PROTOTYPES_HSV[c]
    IN  187 * Min(Abs(h - p[1]), 180 - Abs(h - p[1])) + 30 * Abs(s - p[2]) + 24 * Abs(v - p[3])

NonWhitePrototypes == 2..6

\* line 102: the loop runs over every item of COLOR_PROTOTYPES_HSV
ScoredPrototypes == 1..6

\* a confidence is the fraction <<numerator, denominator>>
White078 == <<39, 50>>

\* lines 114-115 for scores in units of 1/30600: 1 - best/(second + 1e-6) is
\* (10000 second + 306 - 10000 best) / (10000 second + 306), clamped to
\* [1/20, 99/100]
Confidence(best, second) ==
    LET den == 10000 * second + 306
        num == den - 10000 * best
    IN  IF num <= (den - 1) \div 20 THEN <<1, 20>>
        ELSE IF 10000 * best <= (den - 1) \div 100 THEN <<99, 100>>
        ELSE <<num, den>>

ClassifyHsv(h, s, v) ==
    IF s < 35 /\ v > 120 THEN [color |-> "W", confidence |-> White078]
    ELSE
    LET sc(k) == Score(ColorOrder[k], h, s, v)
        \* the stable sort puts first the lowest score, and of equal scores
        \* the earlier prototype
        best == CHOOSE k \in ScoredPrototypes :
                    \A j \in ScoredPrototypes : sc(k) < sc(j) \/ (sc(k) = sc(j) /\ k <= j)
        rest == ScoredPrototypes \ {best}
        second == IF rest = {} THEN 30600
                  ELSE sc(CHOOSE k \in rest : \A j \in rest : sc(k) <= sc(j))
    IN  [color |-> ColorOrder[best], confidence |-> Confidence(sc(best), second)]

\* ---- mean HSV triples given to classify_hsv: a grid, the thresholds of
\* line 98 and the spec's white-like example
Grid(top) == {k * GridStep : k \in 0..(top \div GridStep)}
Hues == Grid(179) \cup {2, 179}
Saturations == Grid(255) \cup {10, 34, 35, 255}
Values == Grid(255) \cup {120, 121, 200, 255}

ClassifyInit ==
    /\ StreamIdle
    /\ stage = "hsv"
    /\ arg \in [h : Hues, s : Saturations, v : Values]
    /\ ret = NoCall

Classify ==
    /\ stage = "hsv"
    /\ ret' = ClassifyHsv(arg.h, arg.s, arg.v)
    /\ stage' = "classified"
    /\ UNCHANGED <<stream, arg>>

ClassifyNext == Classify

SpecClassify == ClassifyInit /\ [][ClassifyNext]_vars


\* =================================================================
\* server.py: roi_to_pixels
\* =================================================================
CoordStep == 250        \* spacing of the region coordinates tried, in thousandths

\* int(value * size) for value = n/1000: the float product of a whole-numbered
\* result may lie just below it, so truncation gives that number or one less
Truncations(n, size) ==
    IF n * size > 0 /\ (n * size) % 1000 = 0
    THEN {(n * size) \div 1000 - 1, (n * size) \div 1000}
    ELSE {(n * size) \div 1000}

NoMinimum(far, near) == far

\* lines 125-126: max(x2, x1 + 1)
AtLeastOnePixel(far, near) == Max(far, near + 1)

\* lines 120-127, coordinates in thousandths of the frame; the set of results
\* the truncations allow
RoiToPixels(roi, frame_width, frame_height) ==
    {[x1 |-> x1, y1 |-> y1,
      x2 |-> AtLeastOnePixel(x2, x1), y2 |-> AtLeastOnePixel(y2, y1)] :
        x1 \in Truncations(Clamp(roi.x, 0, 999), frame_width),
        y1 \in Truncations(Clamp(roi.y, 0, 999), frame_height),
        x2 \in Truncations(Clamp(roi.x + roi.w, 1, 1000), frame_width),
        y2 \in Truncations(Clamp(roi.y + roi.h, 1, 1000), frame_height)}

\* ---- regions and frame sizes given to roi_to_pixels
Positions == {k * CoordStep : k \in (-2)..6} \cup {1, 999}
Extents == {-CoordStep, 0, 1, 80, 600}
FrameWidths == {1, 2, 640, 1280}
FrameHeights == {1, 480}

PixelsInit ==
    /\ StreamIdle
    /\ stage = "region"
    /\ arg \in [roi : [x : Positions, y : Positions, w : Extents, h : Extents],
                frame_width : FrameWidths, frame_height : FrameHeights]
    /\ ret = NoCall

ToPixels ==
    /\ stage = "region"
    /\ ret' \in RoiToPixels(arg.roi, arg.frame_width, arg.frame_height)
    /\ stage' = "pixels"
    /\ UNCHANGED <<stream, arg>>

PixelsNext == ToPixels

SpecPixels == PixelsInit /\ [][PixelsNext]_vars


\* =================================================================
\* server.py: capture_cube_state and api_solve; uart_service.py
\* =================================================================
\* a JSON value that may be null
Null == <<>>
Some(v) == <<v>>

\* cube_service.default_cube_state (it has no kociemba_error entry)
DefaultCubeState ==
    [captured_at |-> Null, complete |-> FALSE, kociemba_input |-> Null,
     kociemba_error |-> Null, faces |-> BlankFaces,
     detections |-> [c \in {"0", "1"} |-> <<>>]]

\* str(exc) of a ValueError of cube_to_kociemba_input
Message(failure) == <<failure.error, failure.about>>

\* lines 187-206: the state captured from the detections of the two cameras
CaptureCubeState(detections) ==
    LET built == BuildFaceState(detections).value
        resolved == CubeToKociembaInput(built.faces)
    IN  [captured_at |-> Some("now"),
         faces |-> built.faces,
         complete |-> built.complete,
         kociemba_input |-> IF built.complete /\ resolved.ok
                            THEN Some(resolved.value) ELSE Null,
         kociemba_error |-> IF built.complete /\ ~resolved.ok
                            THEN Some(Message(resolved)) ELSE Null,
         detections |-> detections]

\* uart_service.send_uart_command: lines 14-19 raise before the port is used;
\* opening, writing or reading the port may raise
SendUartCommand(command, serial_module, port) ==
    IF ~serial_module THEN Fail("pyserial is not installed", "")
    ELSE IF command = "" THEN Fail("Command is empty", "")
    ELSE IF port = "raises" THEN Fail("could not open port", "")
    ELSE Ok([sent |-> command, response |-> "ok"])

\* the JSON body and status of an api_solve response
Response(status, reason, solution) ==
    [status |-> status, ok |-> FALSE, error |-> reason, solution |-> solution,
     kociemba_input |-> Null, uart |-> Null]

UartFailureWithoutSolution(failure, solution) ==
    Response(500, Some(<<"UART send failed", failure.error>>), Null)

\* line 398
UartFailure(failure, solution) ==
    Response(500, Some(<<"UART send failed", failure.error>>), Some(solution))

\* lines 369-408 for the state solved against; solver is what kociemba.solve
\* does with the input, port what the serial port does.  The answer is the
\* response together with what the solver and the transport were asked and
\* gave (Null when not called).
ApiSolve(state, send_uart, kociemba, solver, serial_module, port) ==
    LET NotCalled == [solved |-> Null, sent |-> Null]
        resolved == IF state.kociemba_input = Null
                    THEN CubeToKociembaInput(state.faces)
                    ELSE Ok(state.kociemba_input[1])
    IN  IF ~state.complete
        THEN [response |-> Response(400, Some(<<"Cube state is incomplete", "">>), Null),
              calls |-> NotCalled]
        ELSE IF ~resolved.ok
        THEN [response |-> Response(400, Some(<<"Failed to generate kociemba input",
                                                resolved.error>>), Null),
              calls |-> NotCalled]
        ELSE IF ~kociemba
        THEN [response |-> Response(500, Some(<<"kociemba package is not installed", "">>), Null),
              calls |-> NotCalled]
        ELSE IF ~solver.ok
        THEN [response |-> Response(500, Some(<<"kociemba.solve failed", solver.error>>), Null),
              calls |-> [solved |-> Some(solver), sent |-> Null]]
        ELSE
        LET sent == SendUartCommand(solver.value, serial_module, port)
        IN  IF send_uart /\ ~sent.ok
            THEN [response |-> UartFailure(sent, solver.value),
                  calls |-> [solved |-> Some(solver), sent |-> Some(sent)]]
            ELSE [response |-> [status |-> 200, ok |-> TRUE, error |-> Null,
                                solution |-> Some(solver.value),
                                kociemba_input |-> Some(resolved.value),
                                uart |-> IF send_uart THEN Some(sent.value) ELSE Null],
                  calls |-> [solved |-> Some(solver),
                             sent |-> IF send_uart THEN Some(sent) ELSE Null]]

\* ---- what the cameras detect: the solved cube seen through the default
\* regions, with one sticker (a corner or a center) classified as any color
\* or as unknown; or no frame at all (every sticker unknown)
Recolored(c, k, color) ==
    [d \in {"0", "1"} |->
        IF d = c THEN [CameraDetections(d) EXCEPT ![k].color = color]
        ELSE CameraDetections(d)]
NoFrameDetections ==
    [c \in {"0", "1"} |->
        [k \in 1..(3 * FaceSize) |-> [CameraDetections(c)[k] EXCEPT !.color = Unknown]]]
SeenDetections ==
    {Recolored(c, k, color) :
        c \in {"0", "1"}, k \in {1, Center + 1}, color \in KnownColors \cup {Unknown}}
    \cup {NoFrameDetections}

\* what kociemba.solve may do with an input, and the serial port with a command
SolverOutcomes == {Ok("R U R' U'"), Ok(""), Fail("invalid cubestring", "")}
PortOutcomes == {"works", "raises"}

SolveInit ==
    /\ StreamIdle
    /\ stage = "idle"
    /\ arg \in [kociemba : BOOLEAN, serial : BOOLEAN, request : {Null}]
    /\ ret = [cube_state |-> DefaultCubeState, against |-> Null,
              response |-> Null, calls |-> Null]

\* api_capture_state: the captured state is stored and returned
ApiCaptureState(detections) ==
    /\ stage \in {"idle", "captured"}
    /\ LET state == CaptureCubeState(detections)
       IN  ret' = [cube_state |-> state, against |-> Null,
                   response |-> Some(state), calls |-> Null]
    /\ arg' = [arg EXCEPT !.request = Some("capture-state")]
    /\ stage' = "captured"
    /\ UNCHANGED stream

\* api_solve, lines 359-367: against a state captured (and stored) now, or
\* the stored one
ApiSolveBegin(capture_first, send_uart, detections) ==
    /\ stage \in {"idle", "captured"}
    /\ LET state == IF capture_first THEN CaptureCubeState(detections)
                    ELSE ret.cube_state
       IN  ret' = [cube_state |-> state, against |-> Some(state),
                   response |-> Null, calls |-> Null]
    /\ arg' = [arg EXCEPT !.request = Some([capture_first |-> capture_first,
                                            send_uart |-> send_uart])]
    /\ stage' = "solving"
    /\ UNCHANGED stream

\* api_solve, lines 369-408
ApiSolveFinish(solver, port) ==
    /\ stage = "solving"
    /\ LET answer == ApiSolve(ret.against[1], arg.request[1].send_uart,
                              arg.kociemba, solver, arg.serial, port)
       IN  ret' = [ret EXCEPT !.response = Some(answer.response), !.calls = answer.calls]
    /\ stage' = "solved"
    /\ UNCHANGED <<stream, arg>>

SolveNext ==
    \/ \E detections \in SeenDetections : ApiCaptureState(detections)
    \/ \E send_uart \in BOOLEAN, detections \in SeenDetections :
          ApiSolveBegin(TRUE, send_uart, detections)
    \/ \E send_uart \in BOOLEAN : ApiSolveBegin(FALSE, send_uart, ret.cube_state.detections)
    \/ \E solver \in SolverOutcomes, port \in PortOutcomes : ApiSolveFinish(solver, port)

SpecSolve == SolveInit /\ [][SolveNext]_vars


\* =================================================================
\* camera_service.py: _opencv_candidate_devices
\* =================================================================
MaxParts == 2           \* comma-separated parts of a fallback or probe list

\* str.strip() on the environment values used
Strip(token) ==
    IF token = " " THEN ""
    ELSE IF token = " 1" THEN "1"
    ELSE token

\* token.startswith("/dev/video")
StartsWithDevVideo(token) == token \in {"/dev/video0", "/dev/video1"}

\* int(token): the texts that int() accepts, and their values
IntTexts == {"-1", "0", "1", "01"}
IntOf(token) ==
    IF token = "-1" THEN -1
    ELSE IF token = "0" THEN 0
    ELSE 1

\* str(value) of an integer
StrOf(n) == IF n = -1 THEN "-1" ELSE IF n = 0 THEN "0" ELSE "1"

\* a candidate: a device path, or a device index with its string form
Path(text) == [int |-> FALSE, val |-> 0, str |-> text]
Index(n) == [int |-> TRUE, val |-> n, str |-> StrOf(n)]

\* lines 152-161: no value, a path or an index
ParseDeviceToken(token) ==
    LET stripped == Strip(token)
    IN  IF stripped = "" THEN Null
        ELSE IF StartsWithDevVideo(stripped) THEN Some(Path(stripped))
        ELSE IF stripped \in IntTexts THEN Some(Index(IntOf(stripped)))
        ELSE Null

\* lines 180-183 and 187-190: the parsed parts of a list, in its order
RECURSIVE ParseParts(_)
ParseParts(parts) ==
    IF parts = <<>> THEN <<>>
    ELSE ParseDeviceToken(Head(parts)) \o ParseParts(Tail(parts))

NeverNegative(value) == FALSE

\* line 198: isinstance(value, int) and value < 0
Negative(value) == value.int /\ value.val < 0

\* lines 192-202 for the values k.. of the list
RECURSIVE Dedupe(_, _, _, _)
Dedupe(values, k, deduped, seen) ==
    IF k > Len(values) THEN deduped
    ELSE IF values[k].str \in seen \/ Negative(values[k])
         THEN Dedupe(values, k + 1, deduped, seen)
         ELSE Dedupe(values, k + 1, Append(deduped, values[k]), seen \cup {values[k].str})

\* line 175: f"/dev/video{self.camera_id}"
DefaultPath(camera_id) == IF camera_id = 0 THEN "/dev/video0" ELSE "/dev/video1"

\* lines 164-190: the values before deduplication; env holds the values of
\* CAMERA_n_DEVICE_PATH and CAMERA_n_DEVICE and the parts of CAMERA_n_FALLBACKS
\* and CAMERA_PROBE_INDICES (no parts: the variable is unset or blank)
CandidateValues(camera_id, env) ==
    (IF Strip(env.path) # "" THEN <<Path(Strip(env.path))>> ELSE <<>>)
        \o ParseDeviceToken(env.single)
        \o <<Path(DefaultPath(camera_id)), Index(camera_id)>>
        \o ParseParts(env.fallbacks)
        \o ParseParts(env.probes)

OpencvCandidateDevices(camera_id, env) ==
    Dedupe(CandidateValues(camera_id, env), 1, <<>>, {})

\* ---- environments given to _opencv_candidate_devices
PathValues == {"", " ", "/dev/video0", "/dev/cam", "1"}
SingleValues == {"", "/dev/video1", "0", "-1", "x"}
PartValues == {" 1", "-1", "/dev/video0", "x"}
PartLists == UNION {[1..n -> PartValues] : n \in 0..MaxParts}

CandidatesInit ==
    /\ StreamIdle
    /\ stage = "environment"
    /\ arg \in [camera_id : {0, 1}, path : PathValues, single : SingleValues,
                fallbacks : PartLists, probes : PartLists]
    /\ ret = NoCall

ListCandidates ==
    /\ stage = "environment"
    /\ ret' = OpencvCandidateDevices(arg.camera_id, arg)
    /\ stage' = "listed"
    /\ UNCHANGED <<stream, arg>>

CandidatesNext == ListCandidates

SpecCandidates == CandidatesInit /\ [][CandidatesNext]_vars


\* =================================================================
\* camera_service.py: one open attempt, handle by handle
\* (_open_source from line 112 on, with _open_opencv_capture)
\* =================================================================
\* the capture profiles of lines 240-246
Profiles == <<"MJPG", "YUYV", "default">>

\* line 223-225: CAP_V4L2 first when cv2 has it, then the default backend
BackendIds == IF arg.v4l2 THEN <<"CAP_V4L2", "default">> ELSE <<"default">>

NoHandle == 0

\* a new handle: created handles are numbered in the order of creation
Created == ret.created + 1

\* release(): the handle counts as released once the call was made
ReleaseOf(h) == ret.open \ {h}

\* the locals and fields of an attempt: the position of the device and backend
\* loops, the local cap, the handles created and not released, the fields
\* _opencv_cap and _picamera, and the combinations that passed warm-up
AttemptInit ==
    /\ StreamIdle
    /\ stage = "line112"
    /\ arg \in [backend_pref : Prefs, picamera2_class : BOOLEAN, v4l2 : BOOLEAN]
    /\ ret = [device |-> 1, backend |-> 1, profile |-> 1, cap |-> NoHandle,
              created |-> 0, open |-> {}, opencv_cap |-> NoHandle,
              picamera |-> NoHandle, passed |-> <<>>, accepted |-> <<>>]

\* line 112 (cv2 is present)
AttemptChooseOpenCV ==
    /\ stage = "line112"
    /\ stage' = IF arg.backend_pref \in {"auto", "opencv"} THEN "line114" ELSE "line131"
    /\ UNCHANGED <<stream, arg, ret>>

\* line 114: the next candidate, or line 129 after the last
AttemptNextDevice ==
    /\ stage = "line114"
    /\ IF ret.device <= NumCandidates
       THEN /\ stage' = "line227"
            /\ ret' = [ret EXCEPT !.backend = 1, !.cap = NoHandle]
       ELSE /\ stage' = "line131"
            /\ UNCHANGED ret
    /\ UNCHANGED <<stream, arg>>

\* line 255 and lines 117-119: no backend gave a capture for the device
AttemptNextBackend ==
    /\ stage = "line227"
    /\ ret.backend > Len(BackendIds)
    /\ stage' = "line114"
    /\ ret' = [ret EXCEPT !.device = @ + 1]
    /\ UNCHANGED <<stream, arg>>

\* lines 228-233: VideoCapture(...) returns a handle or raises (cap stays
\* None, lines 250-253 release nothing)
CaptureCreate ==
    /\ stage = "line227"
    /\ ret.backend <= Len(BackendIds)
    /\ \E outcome \in {"handle", "raised"} :
          IF outcome = "handle"
          THEN /\ ret' = [ret EXCEPT !.cap = Created, !.created = Created,
                                     !.open = @ \cup {Created}, !.profile = 1]
               /\ stage' = "line235"
          ELSE /\ ret' = [ret EXCEPT !.cap = NoHandle, !.backend = @ + 1]
               /\ stage' = "line227"
    /\ UNCHANGED <<stream, arg>>

\* line 235: cap.isOpened()
CaptureIsOpened ==
    /\ stage = "line235"
    /\ \E outcome \in {"opened", "closed", "raised"} :
          stage' = CASE outcome = "opened" -> "line240"
                     [] outcome = "closed" -> "line237"
                     [] outcome = "raised" -> "line251"
    /\ UNCHANGED <<stream, arg, ret>>

\* lines 236-238: the handle that did not open is released
CaptureReleaseUnopened ==
    /\ stage = "line237"
    /\ \E outcome \in ReleaseOutcomes :
          IF outcome = "returned"
          THEN /\ ret' = [ret EXCEPT !.open = ReleaseOf(ret.cap), !.backend = @ + 1]
               /\ stage' = "line227"
          ELSE /\ ret' = [ret EXCEPT !.open = ReleaseOf(ret.cap)]
               /\ stage' = "line251"
    /\ UNCHANGED <<stream, arg>>

\* lines 240-247: _apply_capture_profile with the next profile: the settings
\* and the warm-up reads pass, fail, or a call raises
CaptureApplyProfile ==
    /\ stage = "line240"
    /\ \E outcome \in {"passed", "failed", "raised"} :
          CASE outcome = "passed" ->
                 /\ ret' = [ret EXCEPT
                               !.passed = Append(@, <<ret.device, ret.backend, ret.profile>>)]
                 /\ stage' = "line121"
            [] outcome = "failed" ->
                 /\ ret' = [ret EXCEPT !.profile = @ + 1]
                 /\ stage' = IF ret.profile < Len(Profiles) THEN "line240" ELSE "line249"
            [] outcome = "raised" ->
                 /\ stage' = "line251"
                 /\ UNCHANGED ret
    /\ UNCHANGED <<stream, arg>>

\* line 249: no profile passed warm-up
CaptureReleaseFailed ==
    /\ stage = "line249"
    /\ \E outcome \in ReleaseOutcomes :
          IF outcome = "returned"
          THEN /\ ret' = [ret EXCEPT !.open = ReleaseOf(ret.cap), !.backend = @ + 1]
               /\ stage' = "line227"
          ELSE /\ ret' = [ret EXCEPT !.open = ReleaseOf(ret.cap)]
               /\ stage' = "line251"
    /\ UNCHANGED <<stream, arg>>

\* lines 250-253: an exception inside the try: release and go on with the
\* next backend; an exception of this release leaves _open_opencv_capture and
\* is caught at lines 127-128, which go on with the next device
CaptureExcept ==
    /\ stage = "line251"
    /\ \E outcome \in ReleaseOutcomes :
          IF outcome = "returned"
          THEN /\ ret' = [ret EXCEPT !.open = ReleaseOf(ret.cap), !.backend = @ + 1]
               /\ stage' = "line227"
          ELSE /\ ret' = [ret EXCEPT !.open = ReleaseOf(ret.cap), !.device = @ + 1]
               /\ stage' = "line114"
    /\ UNCHANGED <<stream, arg>>

\* lines 121-126: the capture returned becomes the active source
AttemptAcceptCapture ==
    /\ stage = "line121"
    /\ ret' = [ret EXCEPT !.opencv_cap = ret.cap,
                          !.accepted = <<ret.device, ret.backend, ret.profile>>]
    /\ stage' = "finished"
    /\ UNCHANGED <<stream, arg>>

\* line 131 (cv2 is present), else lines 147-150
AttemptChoosePicamera2 ==
    /\ stage = "line131"
    /\ stage' = IF arg.backend_pref \in {"auto", "picamera2"} /\ arg.picamera2_class
                THEN "line133" ELSE "finished"
    /\ UNCHANGED <<stream, arg, ret>>

\* line 133: the camera object is created, or the constructor raises (lines
\* 144-150)
PicameraCreate ==
    /\ stage = "line133"
    /\ \E outcome \in {"handle", "raised"} :
          IF outcome = "handle"
          THEN /\ ret' = [ret EXCEPT !.cap = Created, !.created = Created,
                                     !.open = @ \cup {Created}]
               /\ stage' = "line134"
          ELSE /\ stage' = "finished"
               /\ UNCHANGED ret
    /\ UNCHANGED <<stream, arg>>

\* lines 134-143: configured and started, the camera becomes the active
\* source; lines 144-150: an exception sets the error and nothing else
PicameraStart ==
    /\ stage = "line134"
    /\ \E outcome \in {"started", "raised"} :
          IF outcome = "started"
          THEN ret' = [ret EXCEPT !.picamera = ret.cap, !.accepted = <<0, 1, 1>>,
                                  !.passed = Append(@, <<0, 1, 1>>)]
          ELSE UNCHANGED ret
    /\ stage' = "finished"
    /\ UNCHANGED <<stream, arg>>

AttemptNext ==
    \/ AttemptChooseOpenCV \/ AttemptNextDevice \/ AttemptNextBackend
    \/ CaptureCreate \/ CaptureIsOpened \/ CaptureReleaseUnopened
    \/ CaptureApplyProfile \/ CaptureReleaseFailed \/ CaptureExcept
    \/ AttemptAcceptCapture
    \/ AttemptChoosePicamera2 \/ PicameraCreate \/ PicameraStart

SpecAttempt == AttemptInit /\ [][AttemptNext]_vars


\* =================================================================
\* camera_service.py: the status property
\* =================================================================
\* lines 46-53: the fields are read one after the other without the lock;
\* the snapshot most favourable to the reader is the one that reads both in
\* the same instant (camera_id and opencv_device are not part of the claim)
Status == [source |-> source, error |-> error.kind]

\* =================================================================
\* Properties
\* =================================================================
AttemptBegins(t) == pc[t] = "os_check" /\ pc'[t] = "os_cs1"

\* C1 (as stated): any two consecutive open attempts are at least one
\* cooldown apart, whether the earlier one succeeded or failed.
C1_AttemptsCooldownApart ==
    [][\A t \in Threads :
          AttemptBegins(t) /\ lastAttempt # "never" => sinceAttempt >= Cooldown]_vars

\* C1 (amended): an open attempt that follows a failed one begins at least
\* one cooldown after that one began.
C1_AttemptAfterFailureCooldownApart ==
    [][\A t \in Threads :
          AttemptBegins(t) /\ lastAttempt = "fail" => sinceAttempt >= Cooldown]_vars

\* the task has begun an attempt after a failed one, a full cooldown later
C1_Witness ==
    /\ pc["task"] = "os_cs1"
    /\ lastAttempt = "fail"
    /\ reconnect_in = Cooldown
    /\ Cooldown > MinReconnectTicks

ValidImage(f) == f.kind \in {"device", "placeholder"}

\* C2 (as stated): get_frame() returns a valid non-empty image at every point
\* of the stream's lifetime, for every combination of the imaging libraries.
C2_GetFrameAlwaysValid ==
    \A r \in Readers : rpc[r] = "copied" => ValidImage(got[r])

\* C2 (amended): with both cv2 and numpy available, get_frame() returns a
\* valid non-empty image at every point of the stream's lifetime.
C2_GetFrameValidWithLibraries ==
    cfg.cv2 /\ cfg.np => \A r \in Readers : rpc[r] = "copied" => ValidImage(got[r])

\* get_frame() before anything was published, libraries present, after close()
C2_Witness ==
    \E r \in Readers :
        /\ cfg.cv2 /\ cfg.np
        /\ rpc[r] = "copied"
        /\ latest_frame = NoFrame
        /\ got[r].kind = "placeholder"
        /\ pc["main"] = "closed"

\* C3: once close() has returned no backend handle is held.
C3_NoHandleAfterClose ==
    pc["main"] = "closed" => opencv_cap = None /\ picamera = None

\* C4: only the acquisition task ever calls a device handle.
C4_OnlyTaskCallsDevice == devCallers \subseteq {"task"}

\* C5: what a get_frame() caller holds under the lock is the whole latest
\* publication (or the placeholder when nothing has been published), and
\* nothing is published while it holds the lock.
C5_ReaderSeesLatestWhole ==
    \A r \in Readers :
        rpc[r] = "copied" =>
            /\ lock = r
            /\ pc["task"] # "pub_write"
            /\ IF latest_frame = NoFrame
               THEN got[r] = BuildPlaceholder(r)
               ELSE got[r].kind = latest_frame.kind /\ got[r].id = latest_frame.id

\* a caller holds a copy of a device frame that replaced an earlier one
C5_Witness ==
    \E r \in Readers :
        /\ rpc[r] = "copied"
        /\ got[r].kind = "device"
        /\ got[r].id = FrameIds - 1
        /\ got[r].own = r
        /\ pc["task"] = "pub_acquire"

\* C6: a stream without a reachable device, stop flag unset, one cooldown
\* after construction: the error is non-empty and lists every candidate's
\* failure, what is published is a placeholder, the task has not ended.
C6_UnreachableStreamReportsAndServes ==
    ~cfg.reachable /\ running /\ Constructed /\ uptime >= Cooldown =>
        /\ error.kind # ""
        /\ error.listed = ProbedCandidates
        /\ latest_frame.kind # "device"
        /\ pc["task"] = "frame_sleep" => latest_frame.kind = "placeholder"
        /\ ~TaskEnded

\* C7: while the stop flag is unset no open or read failure ends the task.
C7_FailureNeverEndsTask == running => pc["task"] # "dead"

\* C8: after the stop flag is set at most one more frame is published, and
\* after that publication the task only sleeps, tests the flag and ends;
\* close()'s join has at most its timeout left to wait.
C8_StopsAfterCurrentIteration ==
    /\ running => pubsAfterStop = 0
    /\ pubsAfterStop <= 1
    /\ pubsAfterStop = 1 => pc["task"] \in {"frame_sleep", "loop", "done"}
    /\ pc["main"] = "cl_join" /\ (TaskEnded \/ join_left = 0) => ENABLED CloseJoined

\* the flag was set during an iteration, which published and then ended the task
C8_Witness ==
    /\ ~running
    /\ pubsAfterStop = 1
    /\ pc["task"] = "done"
    /\ pc["main"] = "closed"

InOpenOrClose(t) ==
    pc[t] \in {"os_check", "os_cs1", "os_cs2", "os_cs3", "os_cs4", "os_cs5", "os_cv",
               "os_cv_probe", "os_cv_set_cap", "os_cv_set_src", "os_set_ok", "os_pi",
               "os_pi_probe", "os_pi_set_cam", "os_pi_set_src", "os_fin",
               "cl_cs1", "cl_cs2", "cl_cs3", "cl_cs4", "cl_cs5"}

\* C9: never both handles; and outside open and close steps the source kind
\* names exactly the handle that is held.
C9_SourceMatchesHandles ==
    /\ ~(opencv_cap # None /\ picamera # None)
    /\ (\A t \in Threads : ~InOpenOrClose(t)) =>
          /\ source = "none" <=> (opencv_cap = None /\ picamera = None)
          /\ source = "opencv" <=> opencv_cap # None
          /\ source = "picamera2" <=> picamera # None

\* C10 (as stated): the task never waits for the frame lock while a
\* get_frame() caller holds it.
C10_TaskNeverWaitsForReader == ~(pc["task"] = "pub_acquire" /\ lock \in Readers)

\* C10 (amended): the frame lock is held by a get_frame() caller only inside
\* its critical section, whose next step (the copy, the return) is never
\* blocked; the task waits for the lock only then.
C10_ReaderHoldsLockOnlyToCopy ==
    /\ \A r \in Readers :
          lock = r => /\ rpc[r] \in {"locked", "copied"}
                      /\ ENABLED (GetFrameRead(r) \/ GetFrameReturn(r))
    /\ pc["task"] = "pub_acquire" /\ ~LockFree => lock \in Readers

\* the task is at `with self._lock` while a caller holds the lock
C10_Witness ==
    \E r \in Readers : pc["task"] = "pub_acquire" /\ lock = r /\ rpc[r] = "copied"

\* C11: the task owns the frame lock only between taking it and assigning the
\* frame (never in a device open, warm-up, device read or sleep), the
\* assignment can always be made at once, and a get_frame() caller owns the
\* lock only while it copies; so a caller waits for an assignment or a copy,
\* never for device I/O.
C11_LockHeldOnlyToAssignOrCopy ==
    /\ lock = "task" => pc["task"] = "pub_write" /\ ENABLED Publish
    /\ pc["task"] # "pub_write" => lock # "task"
    /\ \A r \in Readers :
          lock = r => /\ rpc[r] \in {"locked", "copied"}
                      /\ ENABLED GetFrameRead(r) \/ ENABLED GetFrameReturn(r)

\* a get_frame() caller is waiting while the task assigns a device frame
C11_Witness ==
    /\ lock = "task"
    /\ frame.kind = "device"
    /\ Constructed
    /\ \E r \in Readers : rpc[r] = "idle"

\* the steps of close() on the calling thread
InClose == pc["main"] \in {"cl_join", "cl_cs1", "cl_cs2", "cl_cs3", "cl_cs4", "cl_cs5"}

\* C12: close() never raises and always completes, whatever the device calls
\* do, and once it has returned (close_all calls it on each stream in turn) the
\* stream has its stop flag set and its handles cleared.
C12_CloseCompletesAndClears ==
    /\ pc["main"] # "raised"
    /\ InClose => ~running
    /\ pc["main"] = "closed" => ~running /\ opencv_cap = None /\ picamera = None

\* ----------------------------------------------- cube_to_kociemba_input
\* a layout with all six faces present, 9 entries each
WholeLayout(faces) == \A f \in Faces : FaceLen(faces, f) = FaceSize

\* complete: every entry a known color
CompleteLayout(faces) ==
    WholeLayout(faces) /\ \A f \in Faces : \A i \in DOMAIN faces[f] : faces[f][i] \in KnownColors

DistinctCenters(faces) ==
    \A f, g \in Faces : f # g => faces[f][Center] # faces[g][Center]

CountColor(faces, c) ==
    Cardinality({k \in 1..(6 * FaceSize) : faces[SlotFace(k)][SlotIndex(k)] = c})
CountLetter(str, f) == Cardinality({k \in DOMAIN str : str[k] = f})

ReturnsFaceString ==
    /\ ret.ok
    /\ DOMAIN ret.value = 1..(6 * FaceSize)
    /\ \A k \in DOMAIN ret.value : ret.value[k] \in Faces

\* C13 (as stated): for a complete layout with pairwise distinct centers the
\* result is a 54-character string over U,R,F,D,L,B in which each letter
\* appears exactly 9 times.
C13_EachLetterNineTimes ==
    stage = "resolved" /\ CompleteLayout(arg.faces) /\ DistinctCenters(arg.faces)
    => /\ ReturnsFaceString
       /\ \A f \in Faces : CountLetter(ret.value, f) = FaceSize

\* C13 (amended): for such a layout the result is a 54-character string over
\* U,R,F,D,L,B in which the letter of each face appears as often as the color
\* of that face's center appears in the layout.
C13_EachLetterAsOftenAsItsColor ==
    stage = "resolved" /\ CompleteLayout(arg.faces) /\ DistinctCenters(arg.faces)
    => /\ ReturnsFaceString
       /\ \A f \in Faces :
             CountLetter(ret.value, f) = CountColor(arg.faces, arg.faces[f][Center])

\* a complete layout with distinct centers and unequal color counts was resolved
C13_Witness ==
    /\ stage = "resolved"
    /\ CompleteLayout(arg.faces) /\ DistinctCenters(arg.faces)
    /\ ret.ok
    /\ \E f \in Faces : CountLetter(ret.value, f) > FaceSize
    /\ arg.faces["U"][Center] = "Y"

SomeCentersEqual(faces) ==
    \E f, g \in Faces : f # g /\ faces[f][Center] = faces[g][Center]
UnknownCenters(faces) == {f \in Faces : faces[f][Center] \notin KnownColors}

\* C14 (as stated): for a layout with all six faces, 9 entries each, in which
\* two faces have the same center color, the function fails with the error
\* that the centers are not unique and returns no string.
C14_EqualCentersFailAsAmbiguous ==
    stage = "resolved" /\ WholeLayout(arg.faces) /\ SomeCentersEqual(arg.faces)
    => ~ret.ok /\ ret.error = "Center colors are not unique"

\* C14 (amended): for such a layout the function returns no string; it fails
\* with the error that the centers are not unique when all six centers are
\* known colors, and otherwise with the unknown-center error naming the first
\* face in FACE_ORDER whose center is not a known color.
C14_EqualCentersFail ==
    stage = "resolved" /\ WholeLayout(arg.faces) /\ SomeCentersEqual(arg.faces)
    => /\ ~ret.ok
       /\ ret.value = <<>>
       /\ IF UnknownCenters(arg.faces) = {}
          THEN ret.error = "Center colors are not unique"
          ELSE /\ ret.error = "Center sticker is unknown"
               /\ ret.about = FirstFace(UnknownCenters(arg.faces))

\* a layout of known colors with two equal centers was refused as ambiguous
C14_Witness ==
    /\ stage = "resolved"
    /\ CompleteLayout(arg.faces) /\ SomeCentersEqual(arg.faces)
    /\ ret.error = "Center colors are not unique"

\* ------------------------------------------------------ build_face_state
AddressedBy(detections, f, i) ==
    LET all == AllDetections(detections)
    IN  {k \in DOMAIN all : all[k].face = f /\ all[k].index = i}

\* the set addresses all 54 slots, with known colors only
CoversAllSlots(detections) ==
    LET all == AllDetections(detections)
        addressed == {<<all[k].face, all[k].index>> : k \in DOMAIN all}
    IN  /\ \A f \in Faces, i \in 0..(FaceSize - 1) : <<f, i>> \in addressed
        /\ \A k \in DOMAIN all : all[k].color \in KnownColors

\* C15 (as stated): a detection set addressing all 54 slots with known colors
\* is assembled as complete, and without any single one of its detections it
\* is assembled as not complete.
C15_CompleteAndAnyRemovalIncomplete ==
    /\ stage \in {"built", "rebuilt"} /\ CoversAllSlots(ret.given)
       => ret.first.value.complete
    /\ stage = "rebuilt" /\ CoversAllSlots(ret.given)
       => ~ret.second.value.complete

\* C15 (amended): such a set is assembled as complete, and without one of its
\* detections it is assembled as not complete exactly when the removed
\* detection addresses a slot that no other detection of the set addresses.
C15_CompleteAndSoleRemovalIncomplete ==
    /\ stage \in {"built", "rebuilt"} /\ CoversAllSlots(ret.given)
       => ret.first.value.complete
    /\ stage = "rebuilt" /\ CoversAllSlots(ret.given)
       => (~ret.second.value.complete
           <=> /\ SlotExists(BlankFaces, ret.removed)
               /\ Cardinality(AddressedBy(ret.given, ret.removed.face, ret.removed.index)) = 1)

\* a set of more than 54 detections covering all slots lost the only detection
\* of a slot
C15_Witness ==
    /\ stage = "rebuilt"
    /\ CoversAllSlots(ret.given)
    /\ Len(AllDetections(ret.given)) > 6 * FaceSize
    /\ ret.first.value.complete
    /\ ~ret.second.value.complete

\* ------------------------------------- malformed identities (C19)
MalformedDetection(sticker) == ~SlotExists(BlankFaces, sticker)
MalformedRegion(raw) ==
    \/ Upper(raw.face) \notin Faces
    \/ ~raw.index.int
    \/ raw.index.val < 0 \/ raw.index.val > 8

WhiteShortCircuit == arg.s < 35 /\ arg.v > 120
Is078(c) == c[1] % 39 = 0 /\ c[2] % 50 = 0 /\ c[1] \div 39 = c[2] \div 50
AtLeast005(c) == c[1] > (c[2] - 1) \div 20
AtMost099(c) == c[2] - c[1] > (c[2] - 1) \div 100
ScoreOf(color) == Score(color, arg.h, arg.s, arg.v)

\* C16 (as stated): with s < 35 and v > 120 the result is white with 0.78 for
\* any hue; for every other input it is the lowest-scoring prototype among the
\* non-white ones, so white never comes with another confidence than 0.78.
C16_WhiteOnlyByShortCircuit ==
    stage = "classified" =>
       /\ WhiteShortCircuit => ret.color = "W" /\ Is078(ret.confidence)
       /\ ~WhiteShortCircuit =>
             /\ ret.color # "W"
             /\ \A c \in KnownColors \ {"W"} : ScoreOf(ret.color) <= ScoreOf(c)
       /\ ret.color = "W" => Is078(ret.confidence)

\* C16 (amended): with s < 35 and v > 120 the result is white with 0.78 for
\* any hue; for every other input it is the lowest-scoring prototype among all
\* six, white included, with a confidence between 0.05 and 0.99.
C16_ShortCircuitElseNearestOfAll ==
    stage = "classified" =>
       /\ WhiteShortCircuit => ret.color = "W" /\ Is078(ret.confidence)
       /\ ~WhiteShortCircuit =>
             /\ \A c \in KnownColors : ScoreOf(ret.color) <= ScoreOf(c)
             /\ AtLeast005(ret.confidence) /\ AtMost099(ret.confidence)

\* white was returned by the distance scoring, with a confidence other than 0.78
C16_Witness ==
    /\ stage = "classified"
    /\ ~WhiteShortCircuit
    /\ ret.color = "W"
    /\ ~Is078(ret.confidence)

\* ---------------------------------------------------------- roi_to_pixels
\* C17: for a region with w > 0 and h > 0, any x and y, and a frame at least
\* one pixel wide and high, the pixel rectangle has x2 > x1 and y2 > y1.
C17_RectangleNotEmpty ==
    stage = "pixels" /\ arg.roi.w > 0 /\ arg.roi.h > 0
       /\ arg.frame_width >= 1 /\ arg.frame_height >= 1
    => ret.x2 > ret.x1 /\ ret.y2 > ret.y1

\* a region narrower than a pixel inside the frame: the scaled right edge does
\* not lie beyond the left one
C17_Witness ==
    /\ stage = "pixels"
    /\ arg.roi.w = 1 /\ arg.roi.h > 0
    /\ arg.roi.x > 0 /\ arg.roi.x < 999
    /\ ret.x2 = ret.x1 + 1
    /\ (Clamp(arg.roi.x + arg.roi.w, 1, 1000) * arg.frame_width) \div 1000 <= ret.x1

\* ------------------------------------------------------------- api_solve
SolverReturned == ret.calls.solved # Null /\ ret.calls.solved[1].ok
SendFailed == ret.calls.sent # Null /\ ~ret.calls.sent[1].ok

\* C18: when the solver returned a solution and the serial send then failed,
\* the response carries the transport error and that solution.
C18_SolutionKeptOnSendFailure ==
    stage = "solved" /\ SolverReturned /\ SendFailed
    => /\ ret.response[1].error # Null
       /\ ret.response[1].error[1][1] = "UART send failed"
       /\ ret.response[1].error[1][2] = ret.calls.sent[1].error
       /\ ret.response[1].solution = Some(ret.calls.solved[1].value)

\* the solver returned moves, the port could not be opened
C18_Witness ==
    /\ stage = "solved"
    /\ SolverReturned /\ SendFailed
    /\ ret.calls.solved[1].value # ""
    /\ ret.calls.sent[1].error = "could not open port"
    /\ ret.response[1].solution = Some(ret.calls.solved[1].value)

\* C20 (as stated): a capture-state result without solver input carries a
\* reason naming the cause, and a solve request against a state without
\* solver input returns an error and neither calls the solver nor returns a
\* solution.
C20_NoSolverInputHasReason ==
    /\ stage = "captured" /\ ret.response[1].kociemba_input = Null
       => ret.response[1].kociemba_error # Null
    /\ stage = "solved" /\ ret.against[1].kociemba_input = Null
       => /\ ret.response[1].error # Null
          /\ ret.calls.solved = Null
          /\ ret.response[1].solution = Null

\* ------------------------------------------------------- reconnection
Streaming == source # "none" /\ error = NoError

\* C21: once a stream in backoff has a candidate that can be opened and read
\* (the stop flag unset, the task and time advancing), an open attempt begins
\* after the reconnect deadline, and from some point on the stream is
\* streaming for good and what it publishes and has published are device
\* frames, not placeholders.
C21_BackoffLeadsToStreaming ==
    /\ (InBackoff /\ cfg.steady # {}) ~> (pc["task"] = "os_cs1" /\ reconnect_in = Cooldown)
    /\ (InBackoff /\ cfg.steady # {})
          ~> [](/\ Streaming
                /\ running
                /\ latest_frame.kind = "device"
                /\ pc["task"] = "pub_write" => frame.kind = "device")

\* a stream that had served placeholders in backoff now publishes frames of
\* the device that became steady
C21_Witness ==
    /\ cfg.steady # {}
    /\ lastAttempt = "ok"
    /\ Streaming
    /\ latest_frame.kind = "device"
    /\ pc["task"] = "pub_write" /\ frame.kind = "device"

\* ------------------------------------------------ _opencv_candidate_devices
\* the positions of a list of sources whose value is not a negative index and
\* has a string form that no earlier position has
KeptPositions(sources) ==
    {k \in DOMAIN sources :
        /\ ~(sources[k].int /\ sources[k].val < 0)
        /\ \A j \in 1..(k - 1) : sources[j].str # sources[k].str}

\* the list is the sources at the kept positions, in their order
IsKeptOf(list, sources) ==
    LET kept == KeptPositions(sources)
        nth(i) == CHOOSE k \in kept : Cardinality({j \in kept : j < k}) = i - 1
    IN  /\ Len(list) = Cardinality(kept)
        /\ \A i \in DOMAIN list : list[i] = sources[nth(i)]

PathOverride == IF Strip(arg.path) # "" THEN <<Path(Strip(arg.path))>> ELSE <<>>
SingleOverride == ParseDeviceToken(arg.single)
Fallbacks == ParseParts(arg.fallbacks)
Probes == ParseParts(arg.probes)

\* C22 (as stated): the candidate list is, in this order, the device-path
\* override, the single-device override, the default device path of the camera
\* id, the per-camera fallbacks and the global probe indices, without the
\* negative indices and with only the first of the candidates of one string form.
C22_FiveSourcesDeduplicated ==
    stage = "listed" =>
        IsKeptOf(ret, PathOverride \o SingleOverride
                          \o <<Path(DefaultPath(arg.camera_id))>>
                          \o Fallbacks \o Probes)

\* C22 (amended): the candidate list is, in this order, the device-path
\* override, the single-device override, the default device path of the camera
\* id, the camera id itself as a device index, the per-camera fallbacks and the
\* global probe indices, without the negative indices and with only the first
\* of the candidates of one string form.
C22_SixSourcesDeduplicated ==
    stage = "listed" =>
        IsKeptOf(ret, PathOverride \o SingleOverride
                          \o <<Path(DefaultPath(arg.camera_id)), Index(arg.camera_id)>>
                          \o Fallbacks \o Probes)

\* every source is set; a negative index and repeated candidates were dropped
C22_Witness ==
    /\ stage = "listed"
    /\ PathOverride # <<>> /\ SingleOverride = <<Index(-1)>>
    /\ Len(Fallbacks) = MaxParts /\ Len(Probes) = MaxParts
    /\ Index(1) \in {Fallbacks[k] : k \in DOMAIN Fallbacks}
    /\ Len(ret) = 3
    /\ ret[3] = Index(arg.camera_id)

\* ---------------------------------------------------------- open attempt
\* the handles an attempt left as the active source
AcceptedHandles == {ret.opencv_cap, ret.picamera} \ {NoHandle}

\* C23: when an open attempt has finished, every handle it created and did
\* not make the active source has been released, for both backends and every
\* failure point, and the handle left open (if any) is that of the first
\* combination of device, transport and profile that passed warm-up.
C23_UnacceptedHandlesReleased ==
    stage = "finished" =>
        /\ ret.open \subseteq AcceptedHandles
        /\ Cardinality(AcceptedHandles) <= 1
        /\ AcceptedHandles # {} => ret.accepted = ret.passed[1] /\ Len(ret.passed) = 1
        /\ AcceptedHandles = {} => ret.passed = <<>>

\* ------------------------------------------------- build_face_state (C24)
\* faces is the six faces of nine slots in which each slot has the color of
\* the last detection addressing it, camera "0" before camera "1" and each
\* camera's detections in list order, and the unknown marker without one
LastWriterLayout(faces, detections) ==
    LET all == detections["0"] \o detections["1"]
        last(f, i) ==
            LET addr == {k \in DOMAIN all : all[k].face = f /\ all[k].index = i}
            IN  IF addr = {} THEN Unknown
                ELSE all[CHOOSE k \in addr : \A j \in addr : j <= k].color
    IN  /\ DOMAIN faces = Faces
        /\ \A f \in Faces :
              /\ DOMAIN faces[f] = 0..(FaceSize - 1)
              /\ \A i \in 0..(FaceSize - 1) : faces[f][i] = last(f, i)

\* C24: build_face_state returns the six faces U,R,F,D,L,B of 9 entries each,
\* every slot holding the color of the last detection that addresses it and
\* '?' when none does; a detection with an unknown face or an index outside
\* 0..8 changes no slot.
C24_SixFacesLastWriterWins ==
    /\ stage = "built"
       => ret.first.ok /\ LastWriterLayout(ret.first.value.faces, ret.given)
    /\ stage = "rebuilt"
       => ret.second.ok /\ LastWriterLayout(ret.second.value.faces, arg.detections)

\* a detection of the second camera addresses a slot of the first camera's
\* face and overwrites it; the slot it left has no detection
C24_Witness ==
    /\ stage = "built"
    /\ arg.posted # NoCall
    /\ ret.given["1"][1].face = "U" /\ ret.given["1"][1].index = 4
    /\ ret.first.value.faces["U"][4] = "Y"
    /\ ret.first.value.faces["D"][0] = Unknown

\* ------------------------------------------------- cooldown after a failure
\* thread t makes the step of _open_source that follows its call
CallsOpenSource(t) == pc[t] = "os_check" /\ pc'[t] # pc[t]

\* less than max(reconnect_interval, 0.1 s) has passed since the last open
\* attempt began, and that attempt failed
InCooldownAfterFailure ==
    lastAttempt = "fail" /\ sinceAttempt < Max(cfg.reconnect_interval, MinReconnectTicks)

\* C25: a call of _open_source made less than max(reconnect_interval, 0.1 s)
\* after a failed open attempt began returns at once: no device is touched,
\* source, handles, error and deadline stay as they are; so an attempt that
\* follows a failed one never begins before that time has passed.
C25_CallInCooldownReturnsUntouched ==
    [][\A t \in Threads :
          /\ CallsOpenSource(t) /\ InCooldownAfterFailure
             => /\ pc'[t] = OpenReturn(t)
                /\ UNCHANGED <<source, opencv_cap, picamera, error, reconnect_in,
                               devCallers, cand>>
          /\ AttemptBegins(t) => ~InCooldownAfterFailure]_vars

\* the constructor's attempt failed and the task's first call of _open_source
\* came back within the cooldown: the task has touched no device
C25_Witness ==
    /\ pc["task"] = "no_frame"
    /\ lastAttempt = "fail"
    /\ sinceAttempt < Cooldown
    /\ reconnect_in > 0
    /\ devCallers = {"main"}

\* ------------------------------------------------------------------ status
TaskRuns == Constructed /\ ~TaskEnded

\* C26: a status snapshot taken while the acquisition task runs reports a
\* source other than 'none' exactly when it reports an empty error.
C26_StatusConsistent ==
    TaskRuns => (Status.source # "none" <=> Status.error = "")

\* ------------------------------------------- cube_to_kociemba_input (C27)
\* position 9 * i + 4 of the string, counted from 0, for the i-th face
CenterPosition(i) == FaceSize * (i - 1) + Center + 1

\* C27: a layout of 54 known colors with pairwise distinct centers is always
\* resolved (the 'no matching center face' error does not occur); the center
\* position of the i-th block of the result holds the i-th letter of
\* U,R,F,D,L,B, and two positions hold the same letter exactly when their
\* slots hold the same color.
C27_CompleteDistinctAlwaysResolved ==
    stage = "resolved" /\ CompleteLayout(arg.faces) /\ DistinctCenters(arg.faces)
    => /\ ReturnsFaceString
       /\ \A i \in 1..6 : ret.value[CenterPosition(i)] = FACE_ORDER[i]
       /\ \A j, k \in 1..(6 * FaceSize) :
             ret.value[j] = ret.value[k]
             <=> arg.faces[FACE_ORDER[((j - 1) \div FaceSize) + 1]][(j - 1) % FaceSize]
                 = arg.faces[FACE_ORDER[((k - 1) \div FaceSize) + 1]][(k - 1) % FaceSize]

\* a scrambled layout (a corner of U in the color of another face's center,
\* the centers not in the standard places) was resolved
C27_Witness ==
    /\ stage = "resolved"
    /\ CompleteLayout(arg.faces) /\ DistinctCenters(arg.faces)
    /\ arg.faces["U"][Center] = "Y"
    /\ arg.faces["U"][0] = "G"
    /\ ret.ok
    /\ ret.value[1] = "R"

====
